---- MODULE Spec2Model ----
(***************************************************************************)
(* Model of data_plot.py: the calibration transform scale_moisture, the    *)
(* binner smooth_data, the report driver save_plot and the five top-level  *)
(* calls of the script.                                                     *)
(*                                                                         *)
(* Numbers.  scale_moisture works in IEEE-754 binary64.  A binary64 value  *)
(* is modelled exactly as a dyadic number                                  *)
(*     [neg, bits, exp]  =  (-1)^neg * (bits read as a binary integer,     *)
(*                                      most significant bit first) * 2^exp *)
(* in normal form (no leading and no trailing zero bit; zero has no bits). *)
(* Every arithmetic operation is the exact operation followed by rounding  *)
(* to 53 significant bits, ties to even.  Exponents stay far from the      *)
(* binary64 limits for the inputs drawn here, so overflow and subnormals   *)
(* do not occur.                                                           *)
(***************************************************************************)
EXTENDS Integers, Sequences, FiniteSets, TLC

VARIABLES
    call,       \* a function applied on its own: its name and arguments
    ret,        \* and what it returned or raised
    csv,        \* the file at csv_file
    pc,         \* the number of the next top-level call of the script
    status,     \* "running", "exited" or "crashed" (unhandled exception)
    outcomes,   \* how each of the five top-level calls ended
    stdout,     \* the messages printed so far
    files,      \* the image files written so far
    last        \* the locals of the latest save_plot call

vars == <<call, ret, csv, pc, status, outcomes, stdout, files, last>>

----------------------------------------------------------------------------
(* binary64 arithmetic *)

Mantissa == 53

Zero == [neg |-> FALSE, bits |-> <<>>, exp |-> 0]

(* A function written [x \in S |-> e] is evaluated anew at every          *)
(* application; AsSeq and AsRecord evaluate it once, into a sequence or a  *)
(* record.                                                                 *)
AsSeq(f) == f \o <<>>

AsRecord(f) == f @@ <<>>

(* A tuple's components are evaluated in the order written, so           *)
(* <<a, b, e>>[3] is e, evaluated after a and b.                           *)
Zeros(n) == AsSeq([i \in 1..n |-> 0])

Max2(a, b) == IF a >= b THEN a ELSE b

Min2(a, b) == IF a <= b THEN a ELSE b

Abs(n) == IF n < 0 THEN -n ELSE n

(* index of the first / last 1 bit; 0 when there is none *)
FirstOne(b) ==
    LET ones == {i \in 1..Len(b) : b[i] = 1}
    IN  IF ones = {} THEN 0 ELSE CHOOSE i \in ones : \A j \in ones : i <= j

LastOne(b) ==
    LET ones == {i \in 1..Len(b) : b[i] = 1}
    IN  IF ones = {} THEN 0 ELSE CHOOSE i \in ones : \A j \in ones : i >= j

(* sign, binary digits and exponent of the last digit, without leading or *)
(* trailing zeros                                                          *)
Norm(neg, bits, exp) ==
    LET f == FirstOne(bits)
        l == LastOne(bits)
    IN  <<neg, bits, exp,
                  IF f = 0
                  THEN Zero
                  ELSE [neg |-> neg, bits |-> SubSeq(bits, f, l),
                        exp |-> exp + (Len(bits) - l)]>>[4]

(* the binary digits of n >= 0, most significant first; none for 0 *)
IntBits(n) ==
    LET w == IF n >= 2 ^ 30 THEN 31
             ELSE CHOOSE k \in 0..30 : n < 2 ^ k /\ (k = 0 \/ n >= 2 ^ (k - 1))
    IN  <<n, AsSeq([i \in 1..w |-> (n \div 2 ^ (w - i)) % 2])>>[2]

Nibble(b, i) == 8 * b[i] + 4 * b[i + 1] + 2 * b[i + 2] + b[i + 3]

(* the number written by at most 16 binary digits *)
BitsInt(b) ==
    LET p == AsSeq([i \in 1..16 |-> IF i > 16 - Len(b) THEN b[i - (16 - Len(b))] ELSE 0])
    IN  <<b,
                  4096 * Nibble(p, 1) + 256 * Nibble(p, 5) + 16 * Nibble(p, 9)
                      + Nibble(p, 13)>>[2]

FromInt(n) ==
    LET b == IntBits(Abs(n))
    IN  Norm(n < 0, b, 0)

PadL(b, n) == <<b, n, Zeros(n - Len(b)) \o b>>[3]

(* Long bit strings are added and subtracted in limbs of LimbBits bits. *)
LimbBits == 15

LimbBase == 2 ^ LimbBits

Limbs(b) ==
    LET n  == (Len(b) + LimbBits - 1) \div LimbBits
        pb == PadL(b, n * LimbBits)
    IN  <<b, pb,
          AsSeq([k \in 1..n |->
              BitsInt(SubSeq(pb, (k - 1) * LimbBits + 1, k * LimbBits))])>>[3]

LimbsToBits(l) ==
    <<l,
              AsSeq([i \in 1..(Len(l) * LimbBits) |->
                  (l[(i - 1) \div LimbBits + 1]
                      \div 2 ^ (LimbBits - 1 - ((i - 1) % LimbBits))) % 2])>>[2]

(* the carry into limb i of a + b (limb 0 is the one above the first):    *)
(* some lower limb overflows and every limb in between passes a carry on   *)
CarryInto(a, b, i) ==
    IF \E j \in (i + 1)..Len(a) :
           /\ a[j] + b[j] >= LimbBase
           /\ \A k \in (i + 1)..(j - 1) : a[k] + b[k] = LimbBase - 1
    THEN 1 ELSE 0

AddLimbs(a, b) ==
    <<a, b,
              AsSeq([i \in 1..(Len(a) + 1) |->
                  IF i = 1 THEN CarryInto(a, b, 0)
                  ELSE (a[i - 1] + b[i - 1] + CarryInto(a, b, i - 1)) % LimbBase])>>[3]

AddBits(a, b) ==
    LET n  == Max2(Len(a), Len(b))
        la == Limbs(PadL(a, n))
        lb == Limbs(PadL(b, n))
        s  == AddLimbs(la, lb)
    IN  <<a, b, la, lb, s, LimbsToBits(s)>>[6]

(* the borrow taken from limb i by the limbs below it in a - b *)
BorrowFrom(a, b, i) ==
    IF \E j \in (i + 1)..Len(a) :
           /\ a[j] < b[j]
           /\ \A k \in (i + 1)..(j - 1) : a[k] = b[k]
    THEN 1 ELSE 0

SubLimbs(a, b) ==
    <<a, b,
              AsSeq([i \in 1..Len(a) |->
                  (a[i] - b[i] - BorrowFrom(a, b, i) + LimbBase) % LimbBase])>>[3]

(* a - b for a >= b *)
SubBits(a, b) ==
    LET n  == Max2(Len(a), Len(b))
        la == Limbs(PadL(a, n))
        lb == Limbs(PadL(b, n))
        d  == SubLimbs(la, lb)
    IN  <<a, b, la, lb, d, LimbsToBits(d)>>[6]

CmpBits(a, b) ==
    LET n    == Max2(Len(a), Len(b))
        pa   == PadL(a, n)
        pb   == PadL(b, n)
        diff == {i \in 1..n : pa[i] # pb[i]}
    IN  <<a, b,
                  IF diff = {} THEN 0
                  ELSE LET m == CHOOSE i \in diff : \A j \in diff : i <= j
                       IN  IF pa[m] > pb[m] THEN 1 ELSE -1>>[3]

(* a * b for b of at most LimbBits bits: every limb of a times b, the low *)
(* limbs of the products plus their high limbs one limb further up         *)
MulBits(a, b) ==
    LET m  == BitsInt(b)
        la == Limbs(a)
        lo == LimbsToBits(AsSeq([i \in 1..Len(la) |-> (la[i] * m) % LimbBase]))
        hi == LimbsToBits(AsSeq([i \in 1..Len(la) |-> (la[i] * m) \div LimbBase]))
                  \o Zeros(LimbBits)
    IN  <<a, b, la, lo, hi, AddBits(lo, hi)>>[6]

AlignedBits(x, e) == x.bits \o Zeros(x.exp - e)

CmpMag(x, y) ==
    LET e  == Min2(x.exp, y.exp)
        xb == AlignedBits(x, e)
        yb == AlignedBits(y, e)
    IN  <<x, y, CmpBits(xb, yb)>>[3]

Neg(x) == IF x = Zero THEN Zero ELSE [x EXCEPT !.neg = ~x.neg]

ExactAdd(x, y) ==
    LET e  == Min2(x.exp, y.exp)
        xb == AlignedBits(x, e)
        yb == AlignedBits(y, e)
        c  == CmpBits(xb, yb)
        m  == IF x.neg = y.neg THEN AddBits(xb, yb)
              ELSE IF c >= 0 THEN SubBits(xb, yb) ELSE SubBits(yb, xb)
    IN  <<x, y,
                  Norm(IF x.neg = y.neg \/ c >= 0 THEN x.neg ELSE y.neg, m, e)>>[3]

ExactSub(x, y) ==
    LET ny == Neg(y)
    IN  <<x, y, ExactAdd(x, ny)>>[3]

(* x * y, the factor with fewer digits having at most LimbBits of them *)
ExactMul(x, y) ==
    LET m == IF Len(x.bits) >= Len(y.bits)
             THEN MulBits(x.bits, y.bits)
             ELSE MulBits(y.bits, x.bits)
    IN  <<x, y, Norm(x.neg # y.neg, m, x.exp + y.exp)>>[3]

(* x < y, x = y on dyadic numbers *)
FLt(x, y) ==
    LET c == CmpMag(x, y)
    IN  <<x, y,
                  IF x.neg # y.neg THEN x.neg ELSE IF x.neg THEN c > 0 ELSE c < 0>>[3]

FLe(x, y) == <<x, y, x = y \/ FLt(x, y)>>[3]

(* round to nearest, ties to even, at 53 significant bits *)
Round53(x) ==
    LET n      == Len(x.bits)
        keep   == SubSeq(x.bits, 1, Mantissa)
        guard  == x.bits[Mantissa + 1]
        sticky == \E i \in (Mantissa + 2)..n : x.bits[i] = 1
        up     == guard = 1 /\ (sticky \/ keep[Mantissa] = 1)
        m      == IF up THEN AddBits(keep, <<1>>) ELSE keep
    IN  <<x,
                  IF n <= Mantissa THEN x
                  ELSE Norm(x.neg, m, x.exp + (n - Mantissa))>>[2]

FAdd(x, y) ==
    LET s == ExactAdd(x, y)
    IN  <<x, y, Round53(s)>>[3]

FSub(x, y) ==
    LET d == ExactAdd(x, Neg(y))
    IN  <<x, y, Round53(d)>>[3]

FMul(x, y) ==
    LET p == ExactMul(x, y)
    IN  <<x, y, Round53(p)>>[3]

(* Long division r/d for 0 <= r < d < 2^16, LimbBits quotient bits at a   *)
(* time: k limbs of fraction bits, then one more bit that is 1 exactly     *)
(* when the remainder is not zero.                                         *)
RECURSIVE DivBits(_, _, _)
DivBits(r, d, k) ==
    IF k = 0 THEN (IF r = 0 THEN <<>> ELSE <<1>>)
    ELSE PadL(IntBits((r * LimbBase) \div d), LimbBits)
         \o DivBits((r * LimbBase) % d, d, k - 1)

(* enough fraction limbs for the guard bit of any quotient of such operands *)
DivLimbs == 6

(* x / y for operands whose odd parts are below 2^16 *)
FDiv(x, y) ==
    LET n    == BitsInt(x.bits)
        d    == BitsInt(y.bits)
        ip   == IntBits(n \div d)
        frac == DivBits(n % d, d, DivLimbs)
        q    == Norm(x.neg # y.neg, ip \o frac, x.exp - y.exp - Len(frac))
    IN  <<x, y, Round53(q)>>[3]

One == FromInt(1)

----------------------------------------------------------------------------
(* values and exceptions *)

Value(v) == [kind |-> "value", exc |-> "", v |-> v]

Raise(e) == [kind |-> "raise", exc |-> e, v |-> Zero]

Pending == [kind |-> "pending", exc |-> "", v |-> Zero]

(* a cell of a numeric column: a number, or text that is not one,         *)
(* or, after calibration, a binary64 value                                *)
Num(n) == [t |-> "num", n |-> n, f |-> Zero]

Str == [t |-> "str", n |-> 0, f |-> Zero]

Flt(v) == [t |-> "float", n |-> 0, f |-> v]

----------------------------------------------------------------------------
(* calibration *)

dry_values == <<14500, 14500, 14500, 14500>>

wet_values == <<6000, 6300, 6100, 5800>>

(* min(1, x): x when x < 1, else 1 *)
Min1(x) == <<x, IF FLt(x, One) THEN x ELSE One>>[2]

(* max(0, m): m when m > 0, else 0 *)
Max0(m) == <<m, IF FLt(Zero, m) THEN m ELSE Zero>>[2]

(* 1 - max(0, min(1, x)) *)
Clamp(x) == <<x, Value(FSub(One, Max0(Min1(x))))>>[2]

(* num / den, which raises when den is zero, and the rest of the expression *)
Divide(num, den) ==
    <<num, den,
              IF den = Zero THEN Raise("ZeroDivisionError")
              ELSE Clamp(FDiv(num, den))>>[3]

(* scale_moisture without the clamp: 1 - x *)
scale_moisture_unclamped(raw_value, dry_value, wet_value) ==
    IF raw_value.t = "str" THEN Raise("TypeError")
    ELSE LET num == FSub(FromInt(raw_value.n), FromInt(wet_value))
             den == FSub(FromInt(dry_value), FromInt(wet_value))
         IN  IF den = Zero THEN Raise("ZeroDivisionError")
             ELSE Value(FSub(One, FDiv(num, den)))

(* scale_moisture measured from the wrong end: (dry - raw) in place of     *)
(* (raw - wet) in the quotient                                             *)
scale_moisture_from_dry(raw_value, dry_value, wet_value) ==
    IF raw_value.t = "str" THEN Raise("TypeError")
    ELSE Divide(FSub(FromInt(dry_value), FromInt(raw_value.n)),
                FSub(FromInt(dry_value), FromInt(wet_value)))

(* 1 - max(0, min(1, (raw_value - wet_value) / (dry_value - wet_value))),  *)
(* operands first: the two differences, the quotient, min, max, 1 - ...    *)
(* A text cell fails at the first subtraction.                             *)
scale_moisture(raw_value, dry_value, wet_value) ==
    IF raw_value.t = "str" THEN Raise("TypeError")
    ELSE Divide(FSub(FromInt(raw_value.n), FromInt(wet_value)),
                FSub(FromInt(dry_value), FromInt(wet_value)))

----------------------------------------------------------------------------
(* scale_moisture applied to inputs drawn from bounded sets *)

(* the script does not run while a function is applied on its own *)
ScriptIdle ==
    /\ csv = [exists |-> FALSE, header |-> FALSE, rows |-> <<>>]
    /\ pc = 1
    /\ status = "running"
    /\ outcomes = [i \in 1..5 |-> "pending"]
    /\ stdout = <<>>
    /\ files = {}
    /\ last = [outcome |-> "none"]

scriptVars == <<csv, pc, status, outcomes, stdout, files, last>>

MaxCal == 9

RawSamples(dry, wet) ==
    {wet - 1, wet, wet + 1, wet + 311, (dry + wet) \div 2, dry - 1, dry, dry + 1}

ScaleInputs ==
    {<<Num(r), d, w>> : r \in (-1)..(MaxCal + 1), d \in 1..MaxCal, w \in 0..MaxCal}
    \cup UNION {{<<Num(r), dry_values[i], wet_values[i]>> :
                    r \in RawSamples(dry_values[i], wet_values[i])} : i \in 1..4}
    \cup {<<Str, dry_values[1], wet_values[1]>>}

ScaleCall(in) ==
    [fn |-> "scale_moisture", raw_value |-> in[1], dry_value |-> in[2],
     wet_value |-> in[3]]

InitScale ==
    /\ call \in {ScaleCall(in) : in \in ScaleInputs}
    /\ ret = Pending
    /\ ScriptIdle

ScaleStep ==
    /\ call.fn = "scale_moisture"
    /\ ret.kind = "pending"
    /\ ret' = scale_moisture(call.raw_value, call.dry_value, call.wet_value)
    /\ UNCHANGED <<call, scriptVars>>

NextScale == ScaleStep

SpecScale == InitScale /\ [][NextScale]_vars

----------------------------------------------------------------------------
(* data frames *)

(* The clock counts ticks of half an hour, so that the median of two      *)
(* whole-hour timestamps is again a tick.                                  *)
TicksPerHour == 2

mountain_tz == "America/Denver"

(* a timestamp: an instant with the zone it is expressed in, or NaT *)
TS(t, tz) == [nat |-> FALSE, t |-> t, tz |-> tz]

NaT(tz) == [nat |-> TRUE, t |-> 0, tz |-> tz]

tz_convert(ts, tz) == [ts EXCEPT !.tz = tz]

(* order of sort_values on a timestamp column: NaT last *)
TSLess(a, b) == ~a.nat /\ (b.nat \/ a.t < b.t)

(* df.sort_values(col): rows in ascending order of col, ties in frame order *)
sort_values(df, col) ==
    LET n      == Len(df)
        pos(i) == Cardinality({j \in 1..n :
                      \/ TSLess(df[j][col], df[i][col])
                      \/ (~TSLess(df[i][col], df[j][col]) /\ j < i)}) + 1
    IN  AsSeq([p \in 1..n |-> df[CHOOSE i \in 1..n : pos(i) = p]])

(* a quantile edge, kept as num_bins times its value so that it stays an  *)
(* integer; NaN for the quantiles of an empty series                       *)
Edge(v) == [nan |-> FALSE, v |-> v]

NaNEdge == [nan |-> TRUE, v |-> 0]

(* Series.quantile(k / q) with linear interpolation, times q *)
Quantile(x, q, k) ==
    IF Len(x) = 0 THEN NaNEdge
    ELSE LET p == k * (Len(x) - 1)
             i == p \div q
             f == p % q
         IN  IF f = 0 THEN Edge(q * x[i + 1])
             ELSE Edge(q * x[i + 1] + f * (x[i + 2] - x[i + 1]))

(* unique that takes every NaN for a new value *)
Unique_nan_distinct(edges) ==
    LET tagged == AsSeq([k \in 1..Len(edges) |->
                      [new |-> (k = 1 \/ edges[k].nan \/ edges[k] # edges[k - 1]),
                       e |-> edges[k]]])
        IsNew(r) == r.new
        kept   == SelectSeq(tagged, IsNew)
    IN  AsSeq([k \in 1..Len(kept) |-> kept[k].e])

(* algos.unique on the non-decreasing sequence of edges *)
Unique(edges) ==
    LET tagged == AsSeq([k \in 1..Len(edges) |->
                      [new |-> (k = 1 \/ edges[k] # edges[k - 1]), e |-> edges[k]]])
        IsNew(r) == r.new
        kept   == SelectSeq(tagged, IsNew)
    IN  AsSeq([k \in 1..Len(kept) |-> kept[k].e])

(* pd.qcut(x, q, duplicates='drop'): the bin edges and, for every element *)
(* of x, the number of its interval (0 for NaN: it lies in no interval).   *)
qcut(x, q) ==
    LET edges  == AsSeq([k \in 1..(q + 1) |-> Quantile(x, q, k - 1)])
        u      == Unique(edges)
        bins   == IF Len(u) < Len(edges) /\ Len(edges) # 2 THEN u ELSE edges
        left(v) == Cardinality({k \in 1..Len(bins) : bins[k].v < q * v})
        id(v)  == IF q * v = bins[1].v THEN 1 ELSE left(v)
        code(v) == IF id(v) = Len(bins) \/ id(v) = 0 THEN 0 ELSE id(v)
    IN  [bins |-> bins, codes |-> AsSeq([i \in 1..Len(x) |-> code(x[i])])]

(* the mean of a group of cells: kept as the group it averages; the mean  *)
(* of no cell is NaN                                                       *)
Mean(cells) == [agg |-> "mean", of |-> cells]

(* median of a non-decreasing sequence of timestamps; NaT for none *)
Median(ts, tz) ==
    LET n == Len(ts)
    IN  IF n = 0 THEN NaT(tz)
        ELSE IF n % 2 = 1 THEN ts[(n + 1) \div 2]
        ELSE TS((ts[n \div 2].t + ts[n \div 2 + 1].t) \div 2, tz)

ZoneOf(df, col) == IF Len(df) = 0 THEN mountain_tz ELSE df[1][col].tz

(* binning on the value column in place of the time column *)
BinKeys_of_values(sorted, x_col, y_col) ==
    AsSeq([i \in 1..Len(sorted) |-> sorted[i][y_col].n])

(* df[x_col].astype(int): the instants of the time column *)
BinKeys(sorted, x_col, y_col) ==
    AsSeq([i \in 1..Len(sorted) |-> sorted[i][x_col].t])

(* smooth_data(df, x_col, y_col, num_bins): one row per interval of the   *)
(* cut, observed or not, with the mean of y_col and the median of x_col of *)
(* the rows of that interval.  The mean of a text column raises.           *)
smooth_data(df, x_col, y_col, num_bins) ==
    LET sorted == sort_values(df, x_col)
        n      == Len(sorted)
        cut    == qcut(BinKeys(sorted, x_col, y_col), num_bins)
        member(c) == {i \in 1..n : cut.codes[i] = c}
        InBin(c)  == AsSeq([k \in 1..Cardinality(member(c)) |->
                         sorted[CHOOSE i \in member(c) :
                                   Cardinality({j \in member(c) : j < i}) = k - 1]])
    IN  IF \E i \in 1..n : sorted[i][y_col].t = "str"
        THEN Raise("TypeError")
        ELSE Value(AsSeq([c \in 1..(Len(cut.bins) - 1) |->
                  LET rows == InBin(c)
                  IN  ("Bin" :> <<cut.bins[c], cut.bins[c + 1]>>)
                      @@ (y_col :> Mean(AsSeq([k \in 1..Len(rows) |-> rows[k][y_col]])))
                      @@ ("Timestamp" :>
                           tz_convert(Median(AsSeq([k \in 1..Len(rows) |-> rows[k][x_col]]),
                                             ZoneOf(df, x_col)), mountain_tz))]))

----------------------------------------------------------------------------
(* smooth_data applied to frames drawn from bounded sets *)

MaxRows == 2

MaxBins == 4

NumBinsDefault == 100

SmoothTimes == {0, 2, 6, 48}

SmoothCells == {Num(20), Num(30), Str}

SmoothRows ==
    {[Timestamp |-> TS(t, mountain_tz), Temperature_C |-> c] :
        t \in SmoothTimes, c \in SmoothCells}

Frames(rows, n) == UNION {[1..k -> rows] : k \in 0..n}

(* num_bins = 1 on an empty frame is left out: its two NaN edges are not  *)
(* de-duplicated and delimit an interval without bounds.                   *)
SmoothInputs ==
    {<<df, q>> \in Frames(SmoothRows, MaxRows) \X ((1..MaxBins) \cup {NumBinsDefault}) :
        ~(Len(df) = 0 /\ q = 1)}

SmoothCall(in) ==
    [fn |-> "smooth_data", df |-> in[1], x_col |-> "Timestamp",
     y_col |-> "Temperature_C", num_bins |-> in[2]]

InitSmooth ==
    /\ call \in {SmoothCall(in) : in \in SmoothInputs}
    /\ ret = Pending
    /\ ScriptIdle

SmoothStep ==
    /\ call.fn = "smooth_data"
    /\ ret.kind = "pending"
    /\ ret' = smooth_data(call.df, call.x_col, call.y_col, call.num_bins)
    /\ UNCHANGED <<call, scriptVars>>

NextSmooth == SmoothStep

SpecSmooth == InitSmooth /\ [][NextSmooth]_vars

----------------------------------------------------------------------------
----------------------------------------------------------------------------
(* the report driver *)

MoistureColumns ==
    <<"Soil_Moisture_1", "Soil_Moisture_2", "Soil_Moisture_3", "Soil_Moisture_4">>

columns_to_smooth ==
    {"Soil_Moisture_1", "Soil_Moisture_2", "Soil_Moisture_3", "Soil_Moisture_4",
     "Temperature_C", "Pressure_hPa", "Humidity_percent"}

Columns == {"Timestamp"} \cup columns_to_smooth

(* pd.read_csv: a file without a header line raises; a numeric column     *)
(* with one cell that is not a number is read as text, all its cells       *)
read_csv(file) ==
    IF ~file.header THEN Raise("EmptyDataError")
    ELSE Value(AsSeq([i \in 1..Len(file.rows) |->
                   AsRecord([c \in Columns |->
                       IF c = "Timestamp" THEN file.rows[i][c]
                       ELSE IF \E j \in 1..Len(file.rows) : file.rows[j][c].t = "str"
                            THEN Str
                            ELSE file.rows[i][c]])]))

(* pd.to_datetime(df["Timestamp"], utc=True): raises on a cell that is    *)
(* not a timestamp                                                         *)
to_datetime(df) ==
    IF \E i \in 1..Len(df) : ~df[i]["Timestamp"].good
    THEN Raise("ValueError")
    ELSE Value(AsSeq([i \in 1..Len(df) |->
                   [df[i] EXCEPT !["Timestamp"] = TS(@.hour * TicksPerHour, "UTC")]]))

(* the exception of to_datetime left uncaught *)
OnParseError_uncaught(e) ==
    [outcome |-> "raised", exc |-> e, printed |-> <<>>]

(* except Exception as e: print(...); return *)
OnParseError(e) ==
    [outcome |-> "returned", exc |-> "", printed |-> <<<<"Error parsing timestamps:", e>>>>]

(* df["Timestamp"].max(): NaT for no row *)
MaxTimestamp(df) ==
    IF Len(df) = 0 THEN NaT(mountain_tz)
    ELSE df[CHOOSE i \in 1..Len(df) :
               \A j \in 1..Len(df) : ~TSLess(df[i]["Timestamp"], df[j]["Timestamp"])]["Timestamp"]

(* the window test with a strict comparison *)
InWindow_strict(ts, latest_time, hours) ==
    /\ ~ts.nat
    /\ ~latest_time.nat
    /\ ts.t > latest_time.t - hours * TicksPerHour

(* df["Timestamp"] >= latest_time - timedelta(hours=hours); a comparison  *)
(* with NaT is false                                                       *)
InWindow(ts, latest_time, hours) ==
    /\ ~ts.nat
    /\ ~latest_time.nat
    /\ ts.t >= latest_time.t - hours * TicksPerHour

(* the median of a column: kept, like the mean, as the cells it is the    *)
(* median of                                                               *)
ColumnMedian(cells) == [agg |-> "median", of |-> cells]

(* ax.plot(x, y): the points of a line; x and y must be equally long *)
Plot(x, y) ==
    IF Len(x) # Len(y) THEN Raise("ValueError")
    ELSE Value(AsSeq([k \in 1..Len(x) |-> <<x[k], y[k]>>]))

Fahrenheit(mean) == [agg |-> "* 9/5 + 32", of |-> mean]

NoFigure == [title |-> <<>>, median_values |-> <<>>, lines |-> <<>>]

NoLocals ==
    [hours |-> 0, output_image |-> "", outcome |-> "none", exc |-> "",
     printed |-> <<>>, df |-> <<>>, latest_time |-> NaT(mountain_tz),
     filtered |-> <<>>, df_last_24h |-> <<>>, median_values |-> <<>>,
     smoothed |-> FALSE, smoothed_data |-> <<>>, figure |-> NoFigure]

(* save_plot from the plots on: the smoothed series drawn against the bin *)
(* times of the first one, the image written, the message printed          *)
Drawn(l) ==
    LET smoothed_time ==
            AsSeq([k \in 1..Len(l.smoothed_data["Soil_Moisture_1"]) |->
                      l.smoothed_data["Soil_Moisture_1"][k]["Timestamp"]])
        ys(col) == AsSeq([k \in 1..Len(l.smoothed_data[col]) |->
                             l.smoothed_data[col][k][col]])
        lines   == AsRecord([col \in columns_to_smooth \cup {"Temperature_F"} |->
                       IF col = "Temperature_F"
                       THEN Plot(smoothed_time,
                                 AsSeq([k \in 1..Len(l.smoothed_data["Temperature_C"]) |->
                                     Fahrenheit(
                                         l.smoothed_data["Temperature_C"][k]["Temperature_C"])]))
                       ELSE Plot(smoothed_time, ys(col))])
    IN  IF \E col \in DOMAIN lines : lines[col].kind = "raise"
        THEN [l EXCEPT !.outcome = "raised", !.exc = "ValueError"]
        ELSE [l EXCEPT
                 !.outcome = "saved",
                 !.printed = <<<<"Plot saved as", l.output_image>>>>,
                 !.figure  = [title |-> <<l.df_last_24h[1]["Timestamp"], l.latest_time>>,
                              median_values |-> l.median_values,
                              lines |-> AsRecord([col \in DOMAIN lines |-> lines[col].v])]]

(* save_plot once every column is smoothed: sm holds the seven results *)
Smoothed(l, sm) ==
    IF \E col \in columns_to_smooth : sm[col].kind = "raise"
    THEN [l EXCEPT !.outcome = "raised", !.exc = "TypeError"]
    ELSE Drawn([l EXCEPT !.smoothed = TRUE,
                         !.smoothed_data =
                             AsRecord([col \in columns_to_smooth |-> sm[col].v])])

(* save_plot once the moisture columns are overwritten: the medians of the *)
(* scaled columns, and every column smoothed over the same time column     *)
Converted(l, df_last_24h) ==
    Smoothed([l EXCEPT
                 !.df_last_24h = df_last_24h,
                 !.median_values =
                     AsSeq([c \in 1..4 |->
                         ColumnMedian(AsSeq([i \in 1..Len(df_last_24h) |->
                                                df_last_24h[i][MoistureColumns[c]]]))])],
             AsRecord([col \in columns_to_smooth |->
                 smooth_data(df_last_24h, "Timestamp", col, NumBinsDefault)]))

(* save_plot once scale_moisture is applied to every cell of the four     *)
(* moisture columns                                                        *)
Scaled(l, scaled) ==
    IF \E i \in 1..Len(l.filtered), c \in 1..4 : scaled[i][c].kind = "raise"
    THEN [l EXCEPT !.outcome = "raised", !.exc = "TypeError"]
    ELSE Converted(l,
             AsSeq([i \in 1..Len(l.filtered) |->
                 AsRecord([col \in Columns |->
                     IF \E c \in 1..4 : MoistureColumns[c] = col
                     THEN Flt(scaled[i][CHOOSE c \in 1..4 : MoistureColumns[c] = col].v)
                     ELSE l.filtered[i][col]])]))

(* save_plot once the window is cut: the message for an empty window, or  *)
(* the scaling loop                                                        *)
Filtered(l, filtered) ==
    IF Len(filtered) = 0
    THEN [l EXCEPT !.filtered = filtered,
                   !.outcome = "returned",
                   !.printed = <<<<"No data available for the last", l.hours, "hours.">>>>]
    ELSE Scaled([l EXCEPT !.filtered = filtered],
                AsSeq([i \in 1..Len(filtered) |->
                    AsSeq([c \in 1..4 |->
                        scale_moisture(filtered[i][MoistureColumns[c]],
                                       dry_values[c], wet_values[c])])]))

(* save_plot once the latest timestamp is known: the rows of the window *)
Windowed(l, latest_time) ==
    LET Keep(row) == InWindow(row["Timestamp"], latest_time, l.hours)
    IN  Filtered([l EXCEPT !.latest_time = latest_time], SelectSeq(l.df, Keep))

(* save_plot once the frame is in Mountain Time and sorted *)
Sorted(l, df) == Windowed([l EXCEPT !.df = df], MaxTimestamp(df))

(* save_plot once the timestamps went through to_datetime *)
Parsed(l, parsed) ==
    IF parsed.kind = "raise"
    THEN [l EXCEPT !.outcome = OnParseError(parsed.exc).outcome,
                   !.exc     = OnParseError(parsed.exc).exc,
                   !.printed = OnParseError(parsed.exc).printed]
    ELSE Sorted(l, sort_values(
                       AsSeq([i \in 1..Len(parsed.v) |->
                           [parsed.v[i] EXCEPT
                               !["Timestamp"] = tz_convert(@, mountain_tz)]]),
                       "Timestamp"))

(* save_plot once the file is read *)
Loaded(l, rd) ==
    IF rd.kind = "raise"
    THEN [l EXCEPT !.outcome = "raised", !.exc = rd.exc]
    ELSE Parsed(l, to_datetime(rd.v))

(* save_plot(hours, output_image) on the file as it is: how the call ends *)
(* ("returned", "saved" = returned after writing the image, "raised"),     *)
(* what it printed, and its locals.                                        *)
save_plot(file, hours, output_image) ==
    IF ~file.exists
    THEN [NoLocals EXCEPT !.hours = hours, !.output_image = output_image,
                          !.outcome = "returned",
                          !.printed = <<<<"Error: CSV file not found!">>>>]
    ELSE Loaded([NoLocals EXCEPT !.hours = hours, !.output_image = output_image],
                read_csv(file))

----------------------------------------------------------------------------
(* the script: five top-level calls, one after the other *)

Calls ==
    << [hours |-> 24,   output_image |-> "last_24h_plant_plot.png"],
       [hours |-> 1,    output_image |-> "last_1h_plant_plot.png"],
       [hours |-> 168,  output_image |-> "last_week_plant_plot.png"],
       [hours |-> 720,  output_image |-> "last_month_plant_plot.png"],
       [hours |-> 8760, output_image |-> "last_year_plant_plot.png"] >>

(* the script stops at every call that does not save its image *)
AfterCall_stop_on_skip(outcome) == IF outcome = "saved" THEN "running" ELSE "crashed"

(* an exception that leaves a top-level call ends the script *)
AfterCall(outcome) == IF outcome = "raised" THEN "crashed" ELSE "running"

(* the files the script may find *)
TimeHours == {8976, 8999, 9000}

ReadingA ==
    [Soil_Moisture_1 |-> Num(6311), Soil_Moisture_2 |-> Num(7000),
     Soil_Moisture_3 |-> Num(6100), Soil_Moisture_4 |-> Num(15000),
     Temperature_C |-> Num(20), Pressure_hPa |-> Num(1013), Humidity_percent |-> Num(40)]

ReadingB ==
    [Soil_Moisture_1 |-> Num(5000), Soil_Moisture_2 |-> Num(14500),
     Soil_Moisture_3 |-> Num(10000), Soil_Moisture_4 |-> Num(5800),
     Temperature_C |-> Num(25), Pressure_hPa |-> Num(990), Humidity_percent |-> Num(55)]

NumericReadings == {ReadingA, ReadingB}

(* a text cell in a moisture column, a text cell in another column *)
TextReadings ==
    {[ReadingA EXCEPT !.Soil_Moisture_2 = Str], [ReadingB EXCEPT !.Temperature_C = Str]}

LatestHour == CHOOSE h \in TimeHours : \A g \in TimeHours : g <= h

GoodTimestamp(h) == [good |-> TRUE, hour |-> h]

BadTimestamp == [good |-> FALSE, hour |-> 0]

CsvRow(ts, r) == AsRecord([c \in Columns |-> IF c = "Timestamp" THEN ts ELSE r[c]])

CsvRows ==
    {CsvRow(GoodTimestamp(h), r) : h \in TimeHours, r \in NumericReadings}
    \cup {CsvRow(GoodTimestamp(LatestHour), r) : r \in TextReadings}
    \cup {CsvRow(BadTimestamp, ReadingA)}

CsvFiles ==
    {[exists |-> FALSE, header |-> FALSE, rows |-> <<>>],
     [exists |-> TRUE, header |-> FALSE, rows |-> <<>>]}
    \cup {[exists |-> TRUE, header |-> TRUE, rows |-> rows] :
             rows \in Frames(CsvRows, MaxRows)}

NoCall == [fn |-> "none"]

Init ==
    /\ csv \in CsvFiles
    /\ pc = 1
    /\ status = "running"
    /\ outcomes = [i \in 1..5 |-> "pending"]
    /\ stdout = <<>>
    /\ files = {}
    /\ last = NoLocals
    /\ call = NoCall
    /\ ret = Pending

(* one top-level call of save_plot *)
CallSavePlot ==
    /\ status = "running"
    /\ pc <= 5
    /\ last' = save_plot(csv, Calls[pc].hours, Calls[pc].output_image)
    /\ outcomes' = [outcomes EXCEPT ![pc] = last'.outcome]
    /\ stdout' = stdout \o last'.printed
    /\ files' = IF last'.outcome = "saved" THEN files \cup {last'.output_image} ELSE files
    /\ status' = AfterCall(last'.outcome)
    /\ pc' = pc + 1
    /\ UNCHANGED <<csv, call, ret>>

(* the end of the script *)
ScriptEnd ==
    /\ status = "running"
    /\ pc = 6
    /\ status' = "exited"
    /\ UNCHANGED <<csv, pc, outcomes, stdout, files, last, call, ret>>

Next == CallSavePlot \/ ScriptEnd

Spec == Init /\ [][Next]_vars

----------------------------------------------------------------------------
(* save_plot called once, for look-backs other than the five of the script *)

WindowHours == {0, 1, 23, 24, 25}

PlotCall(hours) ==
    [fn |-> "save_plot", hours |-> hours, output_image |-> "plant_plot.png"]

InitPlot ==
    /\ csv \in CsvFiles
    /\ call \in {PlotCall(h) : h \in WindowHours}
    /\ ret = Pending
    /\ pc = 1
    /\ status = "running"
    /\ outcomes = [i \in 1..5 |-> "pending"]
    /\ stdout = <<>>
    /\ files = {}
    /\ last = NoLocals

PlotStep ==
    /\ call.fn = "save_plot"
    /\ ret.kind = "pending"
    /\ last' = save_plot(csv, call.hours, call.output_image)
    /\ ret' = IF last'.outcome = "raised" THEN Raise(last'.exc) ELSE Value(Zero)
    /\ stdout' = stdout \o last'.printed
    /\ files' = IF last'.outcome = "saved" THEN files \cup {last'.output_image} ELSE files
    /\ UNCHANGED <<csv, call, pc, status, outcomes>>

NextPlot == PlotStep

SpecPlot == InitPlot /\ [][NextPlot]_vars

----------------------------------------------------------------------------
ScaleDone == call.fn = "scale_moisture" /\ ret.kind = "value"

(* the raw values drawn together with a calibration pair *)
RawsFor(dry, wet) ==
    {in[1].n : in \in {i \in ScaleInputs : i[1].t = "num" /\ i[2] = dry /\ i[3] = wet}}

(* C2: with dry_value > wet_value, scale_moisture returns 1 for every raw  *)
(* <= wet_value, 0 for every raw >= dry_value, is non-increasing in raw,   *)
(* and its result lies in [0, 1].                                          *)
C2_ClampedNonIncreasing ==
    (ScaleDone /\ call.dry_value > call.wet_value) =>
        LET raw == call.raw_value.n
            dry == call.dry_value
            wet == call.wet_value
        IN  /\ (raw <= wet => ret.v = One)
            /\ (raw >= dry => ret.v = Zero)
            /\ FLe(Zero, ret.v) /\ FLe(ret.v, One)
            /\ \A r2 \in RawsFor(dry, wet) :
                  raw <= r2 => FLe(scale_moisture(Num(r2), dry, wet).v, ret.v)

C2_Witness ==
    /\ ScaleDone
    /\ call.dry_value > call.wet_value
    /\ call.raw_value.n > call.wet_value
    /\ call.raw_value.n < call.dry_value
    /\ FLt(Zero, ret.v) /\ FLt(ret.v, One)

(* the inversion named by the round-trip property, evaluated in binary64:  *)
(* dry - scaled * (dry - wet)                                              *)
Recovered(scaled, dry, wet) ==
    FSub(FromInt(dry), FMul(scaled, FSub(FromInt(dry), FromInt(wet))))

StrictlyInside(raw, dry, wet) ==
    /\ Min2(dry, wet) < raw
    /\ raw < Max2(dry, wet)

(* at most 2^-50 * max(|dry|, |wet|) *)
Tolerance(dry, wet) == Norm(FALSE, IntBits(Max2(Abs(dry), Abs(wet))), -50)

AbsF(x) == IF x.neg THEN Neg(x) ELSE x

(* C9 as stated: for every raw strictly between wet and dry (dry # wet),   *)
(* dry - scale_moisture(raw, dry, wet) * (dry - wet) equals raw.           *)
C9_RoundTripExact ==
    (ScaleDone /\ StrictlyInside(call.raw_value.n, call.dry_value, call.wet_value)) =>
        Recovered(ret.v, call.dry_value, call.wet_value) = FromInt(call.raw_value.n)

(* C9 amended: for every raw strictly between wet and dry (dry # wet), the *)
(* scaled value lies strictly between 0 and 1, and the recovered value     *)
(* dry - scaled * (dry - wet) lies strictly between wet and dry and is     *)
(* within 2^-50 * max(|dry|, |wet|) of raw.                                *)
C9_RoundTripWithinRounding ==
    (ScaleDone /\ StrictlyInside(call.raw_value.n, call.dry_value, call.wet_value)) =>
        LET rec == Recovered(ret.v, call.dry_value, call.wet_value)
        IN  /\ FLt(Zero, ret.v) /\ FLt(ret.v, One)
            /\ FLt(FromInt(Min2(call.dry_value, call.wet_value)), rec)
            /\ FLt(rec, FromInt(Max2(call.dry_value, call.wet_value)))
            /\ FLe(AbsF(ExactSub(rec, FromInt(call.raw_value.n))),
                   Tolerance(call.dry_value, call.wet_value))

C9_Witness ==
    /\ ScaleDone
    /\ StrictlyInside(call.raw_value.n, call.dry_value, call.wet_value)
    /\ Recovered(ret.v, call.dry_value, call.wet_value) # FromInt(call.raw_value.n)

SmoothDone == call.fn = "smooth_data" /\ ret.kind = "value"

(* the timestamp v (an instant) lies in the interval of output row c:     *)
(* (lo, hi], the first interval also holding its lower edge               *)
InInterval(v, q, out, c) ==
    LET lo == out[c]["Bin"][1].v
        hi == out[c]["Bin"][2].v
    IN  /\ (lo < q * v \/ (c = 1 /\ lo = q * v))
        /\ q * v <= hi

BinsOf(v, q, out) == {c \in 1..Len(out) : InInterval(v, q, out, c)}

(* C6 as stated: for a non-empty frame and any bin count n, smooth_data   *)
(* returns at most n rows, every input row falls in exactly one bin, rows *)
(* with equal timestamps share a bin, a row with an earlier timestamp is   *)
(* never in a later bin, and the bin timestamps are non-decreasing.        *)
C6_BinsPartitionInOrder ==
    (SmoothDone /\ Len(call.df) > 0) =>
        LET out == ret.v
            q   == call.num_bins
            ts(i) == call.df[i][call.x_col].t
            n   == Len(call.df)
        IN  /\ Len(out) <= q
            /\ \A i \in 1..n : Cardinality(BinsOf(ts(i), q, out)) = 1
            /\ \A c \in 1..Len(out) :
                  Len(out[c][call.y_col].of)
                      = Cardinality({i \in 1..n : c \in BinsOf(ts(i), q, out)})
            /\ \A i, j \in 1..n :
                  /\ ts(i) = ts(j) => BinsOf(ts(i), q, out) = BinsOf(ts(j), q, out)
                  /\ ts(i) < ts(j) =>
                        \A ci \in BinsOf(ts(i), q, out), cj \in BinsOf(ts(j), q, out) :
                            ci <= cj
            /\ \A c, d \in 1..Len(out) :
                  (c < d /\ ~out[c]["Timestamp"].nat /\ ~out[d]["Timestamp"].nat)
                      => out[c]["Timestamp"].t <= out[d]["Timestamp"].t

----------------------------------------------------------------------------
(* the file as the claims about save_plot see it *)

ValidTimestamps == csv.exists /\ csv.header /\ \A i \in 1..Len(csv.rows) :
                       csv.rows[i]["Timestamp"].good

HourOf(i) == csv.rows[i]["Timestamp"].hour

MaxHour == CHOOSE m \in {HourOf(i) : i \in 1..Len(csv.rows)} :
               \A i \in 1..Len(csv.rows) : HourOf(i) <= m

MinHour == CHOOSE m \in {HourOf(i) : i \in 1..Len(csv.rows)} :
               \A i \in 1..Len(csv.rows) : HourOf(i) >= m

(* row i of the file lies in [max timestamp - H, max timestamp] *)
InLookBack(i, H) == MaxHour - H <= HourOf(i) /\ HourOf(i) <= MaxHour

(* what tells the rows of the generated files apart: hour and pressure *)
FileKey(i) == <<HourOf(i) * TicksPerHour, csv.rows[i]["Pressure_hPa"]>>

FrameKey(row) == <<row["Timestamp"].t, row["Pressure_hPa"]>>

PlotDone == call.fn = "save_plot" /\ ret.kind # "pending"

(* C1: for a non-empty file with valid timestamps and a look-back of H >= 0 *)
(* hours, the rows save_plot keeps are exactly the rows of the file with    *)
(* max timestamp - H <= t <= max timestamp, each as often as the file has   *)
(* it; with H at least the span of the file, every row is kept.             *)
C1_WindowExact ==
    (PlotDone /\ ValidTimestamps /\ Len(csv.rows) > 0) =>
        LET H    == call.hours
            kept == last.filtered
            n    == Len(csv.rows)
        IN  /\ \A i \in 1..n :
                  Cardinality({k \in 1..Len(kept) : FrameKey(kept[k]) = FileKey(i)})
                      = IF InLookBack(i, H)
                        THEN Cardinality({j \in 1..n : FileKey(j) = FileKey(i)})
                        ELSE 0
            /\ Len(kept) = Cardinality({i \in 1..n : InLookBack(i, H)})
            /\ (H >= MaxHour - MinHour => Len(kept) = n)

(* a row exactly H hours before the latest one, kept *)
C1_Witness ==
    /\ PlotDone
    /\ ValidTimestamps
    /\ Len(csv.rows) = 2
    /\ call.hours > 0
    /\ MaxHour - MinHour = call.hours
    /\ Len(last.filtered) = 2

CallDone == call.fn = "none" /\ pc > 1

(* C3 as stated: with a missing or empty CSV, a call of save_plot prints a *)
(* diagnostic, returns, and writes no file.                                 *)
C3_MissingOrEmptySkips ==
    (CallDone /\ (~csv.exists \/ ~csv.header \/ Len(csv.rows) = 0)) =>
        /\ last.outcome = "returned"
        /\ Len(last.printed) > 0
        /\ files = {}

UnparseableTimestamps ==
    csv.exists /\ csv.header /\ \E i \in 1..Len(csv.rows) : ~csv.rows[i]["Timestamp"].good

EmptyWindow(H) == ValidTimestamps /\ \A i \in 1..Len(csv.rows) : ~InLookBack(i, H)

(* C4: when the CSV exists and its timestamps cannot be parsed, or the     *)
(* window holds no row, save_plot prints one message that is not the       *)
(* success message and returns: no exception leaves the call, no image is  *)
(* written.                                                                 *)
C4_SkipLoggedNoImage ==
    (CallDone /\ (UnparseableTimestamps \/ EmptyWindow(last.hours))) =>
        /\ last.outcome = "returned"
        /\ Len(last.printed) = 1
        /\ last.printed[1][1] # "Plot saved as"
        /\ last.figure = NoFigure
        /\ files = {}
        /\ status # "crashed"

C4_Witness ==
    /\ CallDone
    /\ UnparseableTimestamps
    /\ Len(csv.rows) = 2
    /\ csv.rows[1]["Timestamp"].good
    /\ last.printed = <<<<"Error parsing timestamps:", "ValueError">>>>

Ended == status \in {"exited", "crashed"}

(* C5 as stated: in every execution of the script each of the five calls is *)
(* attempted, whatever happened to the other ones.                           *)
C5_AllFiveAttempted ==
    Ended => \A i \in 1..5 : outcomes[i] # "pending"

(* C5 amended: the five windows are attempted in order; a call that        *)
(* returns, with its image or with a skip message, leaves the later calls  *)
(* to be attempted, and the script ends with all five attempted; a call    *)
(* that raises ends the script, and no later window is attempted.          *)
C5_AttemptedUntilRaise ==
    /\ \A i \in 1..5 :
          /\ outcomes[i] # "pending" =>
                \A j \in 1..(i - 1) : outcomes[j] \in {"returned", "saved"}
          /\ outcomes[i] = "raised" =>
                status = "crashed" /\ \A j \in (i + 1)..5 : outcomes[j] = "pending"
    /\ status = "crashed" => \E i \in 1..5 : outcomes[i] = "raised"
    /\ status = "exited" => \A i \in 1..5 : outcomes[i] \in {"returned", "saved"}
    /\ status = "running" => \A i \in 1..5 : outcomes[i] = "pending" <=> i >= pc

(* a call that raised: the script is over, four windows were never tried *)
C5_Witness ==
    /\ status = "crashed"
    /\ outcomes[1] = "raised"
    /\ \A j \in 2..5 : outcomes[j] = "pending"

NumericRow(i) == \A c \in columns_to_smooth : csv.rows[i][c].t = "num"

(* C7 as stated: with a CSV of a single row, the window holds that row for *)
(* any H >= 0, smooth_data with 100 bins returns exactly one bin for every *)
(* column, and the image is written.                                        *)
C7_SingleRowOneBin ==
    (PlotDone /\ ValidTimestamps /\ Len(csv.rows) = 1 /\ NumericRow(1)) =>
        /\ Len(last.filtered) = 1
        /\ last.smoothed
        /\ \A col \in columns_to_smooth : Len(last.smoothed_data[col]) = 1
        /\ last.outcome = "saved"

(* C10: in one run of save_plot the seven smoothed series have the same    *)
(* number of rows, the same bins and the same bin timestamps in the same   *)
(* order, and every line of the figure pairs the value of a bin with the   *)
(* timestamp of that bin.                                                   *)
C10_SeriesShareBins ==
    (CallDone /\ last.smoothed) =>
        /\ \A c, d \in columns_to_smooth :
              /\ Len(last.smoothed_data[c]) = Len(last.smoothed_data[d])
              /\ \A k \in 1..Len(last.smoothed_data[c]) :
                    /\ last.smoothed_data[c][k]["Timestamp"]
                           = last.smoothed_data[d][k]["Timestamp"]
                    /\ last.smoothed_data[c][k]["Bin"] = last.smoothed_data[d][k]["Bin"]
        /\ last.outcome = "saved"
        /\ \A c \in columns_to_smooth :
              /\ Len(last.figure.lines[c]) = Len(last.smoothed_data[c])
              /\ \A k \in 1..Len(last.smoothed_data[c]) :
                    last.figure.lines[c][k]
                        = <<last.smoothed_data[c][k]["Timestamp"],
                            last.smoothed_data[c][k][c]>>

(* two rows at different times with different readings, smoothed and drawn *)
C10_Witness ==
    /\ CallDone
    /\ last.outcome = "saved"
    /\ Len(last.df_last_24h) = 2
    /\ last.df_last_24h[1]["Temperature_C"] # last.df_last_24h[2]["Temperature_C"]
    /\ Len(last.smoothed_data["Soil_Moisture_1"]) = NumBinsDefault
    /\ Len(last.figure.lines["Humidity_percent"]) = NumBinsDefault

====
